---- MODULE Spec2Model ----
(***************************************************************************)
(* FitForge: the nutrition calculator and its goal validator              *)
(* (services/nutritionService.ts), the dashboard statistics                *)
(* (services/authService.ts, FirestoreService.getUserDashboardStats) and   *)
(* the hook that fetches them (hooks/useFirestore.ts, useDashboardStats)   *)
(* as a state machine.                                                     *)
(*                                                                         *)
(* Numbers.  The nutrition formulas are JavaScript doubles.  For integer   *)
(* weight, height and age every intermediate value is a rational with a    *)
(* small denominator (quarters for the BMR, 1/4000 for bmr * multiplier,   *)
(* 1/400 and 1/900 for the macro grams), so Math.round is modelled on      *)
(* exact integer fractions.  The one place where the double differs from   *)
(* the exact value is the product calories * 0.35 (see ProductFallsShort). *)
(*                                                                         *)
(* Time.  Dates are counted in ticks, TicksPerDay ticks to a calendar day; *)
(* local midnight of day d is tick d * TicksPerDay (no daylight-saving     *)
(* shift is modelled).                                                     *)
(***************************************************************************)
EXTENDS Integers, Sequences, FiniteSets, Bags, TLC

VARIABLES
    nutCall,      \* arguments of the createNutritionProfile call
    nutResult,    \* what the nutrition service returned: a profile, its validation
    nutLog,       \* the calls of nutritionService completed so far, in order
    sessions,     \* the user's workoutSessions documents, in date-desc index order
    metrics,      \* the user's progressMetrics documents, in date-desc index order
    clock,        \* the current time (what new Date() returns), in ticks
    writes,       \* number of documents saved so far
    call,         \* the getUserDashboardStats invocation: its locals and its result
    hook,         \* the state of useDashboardStats: stats, loading, error
    auth,         \* Firebase auth, the FirebaseAuthService singleton and useAuth
    dataHook      \* the state of useWorkoutSessions and its requests in flight

nutVars == <<nutCall, nutResult, nutLog>>

uiVars == <<auth, dataHook>>

statsVars == <<sessions, metrics, clock, writes, call, hook>>

vars == <<nutCall, nutResult, nutLog, sessions, metrics, clock, writes, call, hook,
         auth, dataHook>>

-----------------------------------------------------------------------------
(* Bounds of the nutrition inputs: weight in steps of 10 kg, height in     *)
(* steps of 25 cm, age in steps of 10 years, each from one step below zero *)
(* (an invalid input) upward.                                              *)
MaxWeightSteps == 12
MaxHeightSteps == 8
MaxAgeSteps == 8

Weights == {10 * i : i \in -1..MaxWeightSteps}
Heights == {25 * i : i \in -1..MaxHeightSteps}
Ages == {10 * i : i \in -1..MaxAgeSteps}
Genders == {"male", "female"}
ActivityLevels == {"sedentary", "light", "moderate", "active", "very-active"}
Goals == {"lose", "maintain", "gain"}

-----------------------------------------------------------------------------
(* Math.round(n / d) for integers n and d > 0: floor(n/d + 1/2), ties      *)
(* toward +infinity.                                                       *)
Round(n, d) == (2 * n + d) \div (2 * d)

(* The BMR of calculateTDEE, in quarter kcal (6.25 = 25/4).                *)
BmrQuarters(weight, height, age, gender) ==
    IF gender = "male"
    THEN 40 * weight + 25 * height - 20 * age + 20
    ELSE 40 * weight + 25 * height - 20 * age - 644

(* activityMultipliers, in thousandths.                                    *)
ActivityMultiplier(activityLevel) ==
    CASE activityLevel = "sedentary" -> 1200
      [] activityLevel = "light" -> 1375
      [] activityLevel = "moderate" -> 1550
      [] activityLevel = "active" -> 1725
      [] activityLevel = "very-active" -> 1900

(* calculateTDEE taking the multiplier of the rounded BMR.                  *)
calculateTDEE_FromRoundedBmr(weight, height, age, gender, activityLevel) ==
    Round(Round(BmrQuarters(weight, height, age, gender), 4)
            * ActivityMultiplier(activityLevel), 1000)

calculateTDEE(weight, height, age, gender, activityLevel) ==
    Round(BmrQuarters(weight, height, age, gender)
            * ActivityMultiplier(activityLevel), 4000)

(* calculateTargetCalories without the Math.max(1200, ...) of its 'lose'    *)
(* case.                                                                   *)
calculateTargetCalories_NoFloor(tdee, goal) ==
    CASE goal = "lose" -> tdee - 500
      [] goal = "gain" -> tdee + 400
      [] OTHER -> tdee

(* calculateTargetCalories with a surplus of 500 in its 'gain' case.        *)
calculateTargetCalories_Surplus500(tdee, goal) ==
    CASE goal = "lose" -> IF tdee - 500 > 1200 THEN tdee - 500 ELSE 1200
      [] goal = "gain" -> tdee + 500
      [] OTHER -> tdee

calculateTargetCalories(tdee, goal) ==
    CASE goal = "lose" -> IF tdee - 500 > 1200 THEN tdee - 500 ELSE 1200
      [] goal = "gain" -> tdee + 400
      [] OTHER -> tdee

(* The percentages of calculateMacros, in hundredths.                      *)
ProteinPercent(goal) ==
    CASE goal = "lose" -> 35 [] goal = "gain" -> 25 [] OTHER -> 30

FatPercent(goal) ==
    CASE goal = "lose" -> 30 [] goal = "gain" -> 25 [] OTHER -> 30

CarbPercent(goal) ==
    CASE goal = "lose" -> 35 [] goal = "gain" -> 50 [] OTHER -> 40

RECURSIVE Pow2Floor(_)
(* The largest power of two that is at most n, for n >= 1.                 *)
Pow2Floor(n) == IF n < 2 THEN 1 ELSE 2 * Pow2Floor(n \div 2)

(* The double 0.35 is 0.35 - 0.4 * 2^-54.  When calories * 35/100 is an    *)
(* integer N, the double product calories * 0.35 is N itself unless N lies *)
(* in the top quarter of its binade [2^e, 2^(e+1)), where the product      *)
(* rounds to the double just below N.  0.25 and 0.5 are exact, 0.4 is      *)
(* stored above 0.4, and for 0.3 the product of an integer never falls     *)
(* short of an integer N.                                                  *)
ProductFallsShort(calories, percent) ==
    /\ percent = 35
    /\ calories > 0
    /\ (35 * calories) % 100 = 0
    /\ 4 * ((35 * calories) \div 100) > 7 * Pow2Floor((35 * calories) \div 100)

(* Grams with Math.floor in place of Math.round.                           *)
Grams_Floor(calories, percent, kcalPerGram) ==
    (percent * calories) \div (100 * kcalPerGram)

(* Math.round((calories * percent) / kcalPerGram): the exact rounding,     *)
(* except that a value at exactly k + 1/2 whose double product fell short  *)
(* is just below the tie and rounds down to k.                             *)
Grams(calories, percent, kcalPerGram) ==
    IF /\ (2 * percent * calories + 100 * kcalPerGram) % (200 * kcalPerGram) = 0
       /\ ProductFallsShort(calories, percent)
    THEN Round(percent * calories, 100 * kcalPerGram) - 1
    ELSE Round(percent * calories, 100 * kcalPerGram)

calculateMacros(calories, goal) ==
    [calories |-> calories,
     protein |-> Grams(calories, ProteinPercent(goal), 4),
     carbs |-> Grams(calories, CarbPercent(goal), 4),
     fats |-> Grams(calories, FatPercent(goal), 9)]

(* createNutritionProfile on a service that keeps a count of its calls and *)
(* lets it into the result.                                                *)
createNutritionProfile_Drifting(weight, height, age, gender, activityLevel, goal) ==
    LET tdee == calculateTDEE(weight, height, age, gender, activityLevel)
                   + Len(nutLog)
        targetCalories == calculateTargetCalories(tdee, goal)
    IN [tdee |-> tdee,
        bmr |-> Round(BmrQuarters(weight, height, age, gender), 4),
        goal |-> goal,
        target_calories |-> targetCalories,
        macro_goals |-> calculateMacros(targetCalories, goal)]

(* The profile createNutritionProfile returns (the fields that are         *)
(* computed; userId, restrictions, allergies and the fixed lists are       *)
(* copied through).                                                        *)
createNutritionProfile(weight, height, age, gender, activityLevel, goal) ==
    LET tdee == calculateTDEE(weight, height, age, gender, activityLevel)
        targetCalories == calculateTargetCalories(tdee, goal)
    IN [tdee |-> tdee,
        bmr |-> Round(BmrQuarters(weight, height, age, gender), 4),
        goal |-> goal,
        target_calories |-> targetCalories,
        macro_goals |-> calculateMacros(targetCalories, goal)]

-----------------------------------------------------------------------------
NutritionCalls ==
    [weight : Weights, height : Heights, age : Ages, gender : Genders,
     activityLevel : ActivityLevels, goal : Goals]

(* A caller is about to invoke nutritionService.createNutritionProfile with *)
(* some arguments; nothing has been returned yet.                          *)
NutritionStart ==
    /\ nutCall \in NutritionCalls
    /\ nutResult = [kind |-> "none"]
    /\ nutLog = <<>>

(* The call runs.  The method has no throw and no guard: for every         *)
(* argument it returns a profile.                                          *)
CreateNutritionProfile ==
    /\ nutResult.kind = "none"
    /\ nutCall \in NutritionCalls
    /\ nutResult' =
          [kind |-> "profile",
           profile |-> createNutritionProfile(nutCall.weight, nutCall.height,
                          nutCall.age, nutCall.gender, nutCall.activityLevel,
                          nutCall.goal)]
    /\ nutLog' = Append(nutLog, [op |-> "createNutritionProfile",
                                 args |-> nutCall, result |-> nutResult'.profile])
    /\ UNCHANGED nutCall
    /\ UNCHANGED statsVars
    /\ UNCHANGED uiVars

-----------------------------------------------------------------------------
(* validateNutritionGoals.                                                 *)

(* The profiles handed to the validator: target_calories, protein and fats *)
(* range over grids that hold negative values, zero, and the exact         *)
(* thresholds (protein 75 and fats 20..80 at a matching target).           *)
MaxTargetSteps == 25
MaxProteinSteps == 40
MaxFatSteps == 16

Targets == {100 * i : i \in -1..MaxTargetSteps}
Proteins == {5 * i : i \in -1..MaxProteinSteps}
Fats == {5 * i : i \in -1..MaxFatSteps}

GivenProfiles ==
    {[tdee |-> t, bmr |-> t, goal |-> "maintain", target_calories |-> t,
      macro_goals |-> [calories |-> t, protein |-> p, carbs |-> 0, fats |-> f]] :
        t \in Targets, p \in Proteins, f \in Fats}

CaloriesTooLow == "Calorie target may be too low for safe weight loss"
ProteinTooLow == "Protein intake may be insufficient for muscle maintenance"
FatTooLow ==
    "Fat intake may be too low for hormone production and nutrient absorption"

(* (energy / target_calories) * 100 < threshold as the doubles decide it:  *)
(* a division by zero gives -Infinity for a negative energy (below every   *)
(* threshold) and +Infinity or NaN otherwise (below none).                 *)
PercentBelow(energy, targetCalories, threshold) ==
    IF targetCalories > 0 THEN 100 * energy < threshold * targetCalories
    ELSE IF targetCalories < 0 THEN 100 * energy > threshold * targetCalories
    ELSE energy < 0

(* validateNutritionGoals with the rules chained by else-if.               *)
validateNutritionGoals_FirstRuleOnly(profile) ==
    LET warnings ==
            IF profile.target_calories < 1200 THEN <<CaloriesTooLow>>
            ELSE IF PercentBelow(profile.macro_goals.protein * 4,
                        profile.target_calories, 15) THEN <<ProteinTooLow>>
            ELSE IF PercentBelow(profile.macro_goals.fats * 9,
                        profile.target_calories, 20) THEN <<FatTooLow>>
            ELSE <<>>
    IN [profile |-> profile, valid |-> (Len(warnings) = 0), warnings |-> warnings]

(* validateNutritionGoals lifting a low target to 1200 in the profile.     *)
validateNutritionGoals_RaisesTarget(profile) ==
    LET w1 == IF profile.target_calories < 1200 THEN <<CaloriesTooLow>> ELSE <<>>
        w2 == IF PercentBelow(profile.macro_goals.protein * 4,
                     profile.target_calories, 15)
              THEN Append(w1, ProteinTooLow) ELSE w1
        warnings == IF PercentBelow(profile.macro_goals.fats * 9,
                           profile.target_calories, 20)
                    THEN Append(w2, FatTooLow) ELSE w2
    IN [profile |-> [profile EXCEPT !.target_calories =
                        IF @ < 1200 THEN 1200 ELSE @],
        valid |-> (Len(warnings) = 0), warnings |-> warnings]

(* What validateNutritionGoals returns, with the profile object as the     *)
(* call leaves it: the method only reads it.                               *)
validateNutritionGoals(profile) ==
    LET w1 == IF profile.target_calories < 1200 THEN <<CaloriesTooLow>> ELSE <<>>
        w2 == IF PercentBelow(profile.macro_goals.protein * 4,
                     profile.target_calories, 15)
              THEN Append(w1, ProteinTooLow) ELSE w1
        warnings == IF PercentBelow(profile.macro_goals.fats * 9,
                           profile.target_calories, 20)
                    THEN Append(w2, FatTooLow) ELSE w2
    IN [profile |-> profile, valid |-> (Len(warnings) = 0), warnings |-> warnings]

(* A caller holds some profile (a computed one, or one read back from      *)
(* storage) and nothing has been validated yet.                            *)
ValidateStart ==
    /\ nutResult \in {[kind |-> "profile", profile |-> p] : p \in GivenProfiles}
    /\ nutLog = <<>>

(* The validator runs on the held profile.  The method has no throw.       *)
ValidateNutritionGoals ==
    /\ nutResult.kind = "profile"
    /\ LET r == validateNutritionGoals(nutResult.profile)
       IN nutResult' = [kind |-> "validated", given |-> nutResult.profile,
                        profile |-> r.profile, valid |-> r.valid,
                        warnings |-> r.warnings]
    /\ nutLog' = Append(nutLog, [op |-> "validateNutritionGoals",
                                 args |-> nutResult.profile,
                                 result |-> nutResult'.warnings])
    /\ UNCHANGED nutCall
    /\ UNCHANGED statsVars
    /\ UNCHANGED uiVars

-----------------------------------------------------------------------------
(* calculateProteinNeeds.  The weight is counted in half kilograms, so     *)
(* that weights such as 82.5 kg are among the arguments.                   *)
MaxProteinWeightSteps == 40

HalfKilograms == {5 * i : i \in -1..MaxProteinWeightSteps}

FitnessLevels == {"beginner", "intermediate", "advanced"}

(* proteinPerKg, in tenths of a gram per kg.                               *)
proteinPerKg(goal, fitnessLevel) ==
    CASE goal = "lose" ->
            (CASE fitnessLevel = "beginner" -> 16
               [] fitnessLevel = "intermediate" -> 18
               [] fitnessLevel = "advanced" -> 22)
      [] goal = "gain" ->
            (CASE fitnessLevel = "beginner" -> 14
               [] fitnessLevel = "intermediate" -> 16
               [] fitnessLevel = "advanced" -> 18)
      [] OTHER ->
            (CASE fitnessLevel = "beginner" -> 12
               [] fitnessLevel = "intermediate" -> 14
               [] fitnessLevel = "advanced" -> 16)

(* The double 1.4 is 1.4 - 0.4 * 2^-52.  When weightKg * 1.4 is exactly    *)
(* k + 1/2, the double product is that value unless it lies in the top     *)
(* quarter of its binade, where the product rounds to the double just      *)
(* below.  1.2 is stored below 1.2 too, but too close for the product to   *)
(* fall short; 1.6, 1.8 and 2.2 are stored above their decimal values.     *)
NeedsFallShort(halfKg, tenths) ==
    /\ tenths = 14
    /\ halfKg > 0
    /\ (2 * halfKg * tenths + 20) % 40 = 0
    /\ 4 * ((halfKg * tenths) \div 10) > 7 * Pow2Floor((halfKg * tenths) \div 10)

(* Math.round(weightKg * proteinPerKg) for weightKg = halfKg / 2.          *)
calculateProteinNeeds(halfKg, fitnessLevel, goal) ==
    IF NeedsFallShort(halfKg, proteinPerKg(goal, fitnessLevel))
    THEN Round(halfKg * proteinPerKg(goal, fitnessLevel), 20) - 1
    ELSE Round(halfKg * proteinPerKg(goal, fitnessLevel), 20)

ProteinCalls ==
    [halfKg : HalfKilograms, fitnessLevel : FitnessLevels, goal : Goals]

(* A caller is about to invoke calculateProteinNeeds.                      *)
ProteinStart ==
    /\ nutCall \in ProteinCalls
    /\ nutResult = [kind |-> "none"]
    /\ nutLog = <<>>

CalculateProteinNeeds ==
    /\ nutResult.kind = "none"
    /\ nutCall \in ProteinCalls
    /\ nutResult' =
          [kind |-> "protein",
           grams |-> calculateProteinNeeds(nutCall.halfKg, nutCall.fitnessLevel,
                         nutCall.goal)]
    /\ nutLog' = Append(nutLog, [op |-> "calculateProteinNeeds",
                                 args |-> nutCall, result |-> nutResult'.grams])
    /\ UNCHANGED nutCall
    /\ UNCHANGED statsVars
    /\ UNCHANGED uiVars

-----------------------------------------------------------------------------
(* The dashboard statistics: FirestoreService.getUserDashboardStats and    *)
(* the store operations it reads from.                                     *)

(* Granularity of time: ticks per calendar day (24 * 60 * 60 * 1000 ms).   *)
TicksPerDay == 2
(* How many documents are saved, and how many days of earlier history (one *)
(* session a day) the store may start with.                                *)
MaxWrites == 2
MaxHistory == 0

(* limit of the all-sessions read; the two windows, in days; the weekly    *)
(* target.                                                                 *)
SessionLimit == 100
WeekDays == 7
MonthDays == 30
weeklyGoal == 4

(* The local calendar day of an instant (setHours(0, 0, 0, 0)).            *)
DayOf(t) == t \div TicksPerDay

(* The clock starts on the last tick of day 0 and is followed into the     *)
(* first tick of day 1.                                                    *)
StartClock == TicksPerDay - 1

EndClock == TicksPerDay

(* An optional field is <<>> when missing and <<v>> when it holds v.       *)
Absent == <<>>

OptKey(o) == IF o = Absent THEN -1 ELSE o[1]

(* Where a document goes in an index ordered by date, descending.          *)
(* Documents of equal date are kept in a fixed order (Firestore orders     *)
(* them by document id; nothing below depends on that order).              *)
InsertByDateDesc(index, d, key) ==
    LET n == Cardinality({i \in 1..Len(index) :
                 \/ index[i].date > d.date
                 \/ index[i].date = d.date /\ key[index[i]] <= key[d]})
    IN SubSeq(index, 1, n) \o <<d>> \o SubSeq(index, n + 1, Len(index))

CaloriesValues == {Absent, <<300>>}
WeightValues == {Absent, <<80>>}

(* The dates a saved session may carry (the caller supplies the date):     *)
(* the starting instant, a day ahead of it, and 7 and 30 days before it    *)
(* (the starts of the two windows of a call made at the starting instant,  *)
(* and just outside them for a call made a tick later).                    *)
SessionDates ==
    {StartClock, StartClock + TicksPerDay,
     StartClock - WeekDays * TicksPerDay, StartClock - MonthDays * TicksPerDay}

MetricDates == {StartClock, StartClock - TicksPerDay}

SessionDocs == [date : SessionDates, calories_burned : CaloriesValues]

MetricDocs == [date : MetricDates, weight : WeightValues]

(* A store that already holds one session, logged at midnight, on each of  *)
(* the h days up to and including day 0.                                   *)
History(h) ==
    [i \in 1..h |-> [date |-> (1 - i) * TicksPerDay, calories_burned |-> <<300>>]]

HistoryLengths == (0..MaxHistory) \cup {SessionLimit}

(* getUserWorkoutSessions: where userId, orderBy date desc, limit.         *)
getUserWorkoutSessions(store, limitCount) ==
    SubSeq(store, 1, IF Len(store) < limitCount THEN Len(store) ELSE limitCount)

(* The second read of getUserDashboardStats: where date >= oneMonthAgo,    *)
(* orderBy date desc, no limit.  On the date-desc index the matching       *)
(* documents are a prefix.                                                 *)
RecentSessionsQuery(store, oneMonthAgo) ==
    SubSeq(store, 1,
        Cardinality({i \in 1..Len(store) : store[i].date >= oneMonthAgo}))

(* getLatestProgressMetrics: orderBy date desc, limit 1; null (<<>>) on an *)
(* empty snapshot.  With several documents of the latest date the store    *)
(* may return any of them.                                                 *)
getLatestProgressMetrics(store) ==
    IF store = <<>> THEN {<<>>}
    ELSE {<<store[i]>> : i \in {j \in 1..Len(store) : store[j].date = store[1].date}}

(* allSessions.sort((a, b) => b.date.getTime() - a.date.getTime()): a      *)
(* stable sort, latest first.  A sequence already in that order is left as *)
(* it is; otherwise each element goes to the position given by the number  *)
(* of later-dated elements plus the equal-dated ones before it.            *)
SortByDateDesc(seq) ==
    IF \A i \in 1..(Len(seq) - 1) : seq[i].date >= seq[i + 1].date
    THEN seq
    ELSE LET pos == [i \in 1..Len(seq) |->
                        1 + Cardinality({j \in 1..Len(seq) :
                                \/ seq[j].date > seq[i].date
                                \/ seq[j].date = seq[i].date /\ j < i})]
         IN [k \in 1..Len(seq) |-> seq[CHOOSE i \in 1..Len(seq) : pos[i] = k]]

(* One iteration of the for loop over sortedSessions: st holds checkDate's *)
(* day, workoutStreak, and whether the loop has hit its break.             *)
StreakStep(session, st) ==
    IF st.broke THEN st
    ELSE IF DayOf(session.date) = st.checkDay
         THEN [st EXCEPT !.checkDay = @ - 1, !.workoutStreak = @ + 1]
         ELSE IF DayOf(session.date) < st.checkDay
              THEN [st EXCEPT !.broke = TRUE]
              ELSE st

RECURSIVE StreakLoop(_, _, _, _)
(* Iterations i..j of the for loop, in order, from loop state st (the      *)
(* range is split in halves only to keep the evaluation shallow; after the *)
(* break no further iteration runs).                                       *)
StreakLoop(sortedSessions, i, j, st) ==
    IF i > j THEN st
    ELSE IF i = j THEN StreakStep(sortedSessions[i], st)
    ELSE LET firstHalf == StreakLoop(sortedSessions, i, (i + j) \div 2, st)
         IN IF firstHalf.broke THEN firstHalf
            ELSE StreakLoop(sortedSessions, (i + j) \div 2 + 1, j, firstHalf)

(* The streak loop with workoutStreak initialised to 1.                    *)
WorkoutStreak_FromOne(allSessions, checkDay) ==
    StreakLoop(SortByDateDesc(allSessions), 1, Len(allSessions),
        [checkDay |-> checkDay, workoutStreak |-> 1, broke |-> FALSE]).workoutStreak

(* workoutStreak after the loop, with checkDate starting on checkDay.      *)
WorkoutStreak(allSessions, checkDay) ==
    StreakLoop(SortByDateDesc(allSessions), 1, Len(allSessions),
        [checkDay |-> checkDay, workoutStreak |-> 0, broke |-> FALSE]).workoutStreak

RECURSIVE ReduceCalories(_, _, _)
(* recentSessions.docs.reduce((total, doc) => total + (calories_burned ||  *)
(* 0), 0) over the documents i..j.                                         *)
ReduceCalories(docs, i, j) ==
    IF i > j THEN 0
    ELSE IF i = j
         THEN (IF docs[i].calories_burned = Absent
               THEN 0 ELSE docs[i].calories_burned[1])
         ELSE ReduceCalories(docs, i, (i + j) \div 2)
                + ReduceCalories(docs, (i + j) \div 2 + 1, j)

(* thisWeekSessions: the recent documents dated at or after oneWeekAgo.    *)
(* thisWeekSessions counting only the documents that have calories_burned. *)
ThisWeekSessions_WithCalories(docs, oneWeekAgo) ==
    Cardinality({i \in 1..Len(docs) :
        docs[i].date >= oneWeekAgo /\ docs[i].calories_burned # Absent})

ThisWeekSessions(docs, oneWeekAgo) ==
    Cardinality({i \in 1..Len(docs) : docs[i].date >= oneWeekAgo})

(* Math.min((thisWeekSessions / weeklyGoal) * 100, 100); the quotient by 4 *)
(* and its product with 100 are exact.                                     *)
WeeklyGoalProgress(thisWeekSessions) ==
    IF (thisWeekSessions * 100) \div weeklyGoal < 100
    THEN (thisWeekSessions * 100) \div weeklyGoal
    ELSE 100

(* getUserDashboardStats offsetting its calorie sum by the target of the   *)
(* nutrition profile that happens to be held when it finishes.             *)
DashboardStats_SharesProfile(allSessions, recentDocs, progressMetrics, now, checkNow) ==
    [workoutStreak |->
        WorkoutStreak(allSessions, DayOf(checkNow)),
     totalWorkouts |-> Len(allSessions),
     caloriesBurned |->
        ReduceCalories(recentDocs, 1, Len(recentDocs))
          + (IF nutResult.kind = "profile"
             THEN nutResult.profile.target_calories ELSE 0),
     weeklyGoalProgress |->
        WeeklyGoalProgress(
            ThisWeekSessions(recentDocs, now - WeekDays * TicksPerDay)),
     recentWeight |->
        IF progressMetrics = <<>> THEN Absent ELSE progressMetrics[1].weight]

(* What getUserDashboardStats computes once its three reads have resolved: *)
(* now is the instant taken on entry, checkNow the new Date() taken for    *)
(* checkDate after the reads.                                              *)
DashboardStats(allSessions, recentDocs, progressMetrics, now, checkNow) ==
    [workoutStreak |->
        WorkoutStreak(allSessions, DayOf(checkNow)),
     totalWorkouts |-> Len(allSessions),
     caloriesBurned |-> ReduceCalories(recentDocs, 1, Len(recentDocs)),
     weeklyGoalProgress |->
        WeeklyGoalProgress(
            ThisWeekSessions(recentDocs, now - WeekDays * TicksPerDay)),
     recentWeight |->
        IF progressMetrics = <<>> THEN Absent ELSE progressMetrics[1].weight]

NoStats ==
    [workoutStreak |-> 0, totalWorkouts |-> 0, caloriesBurned |-> 0,
     weeklyGoalProgress |-> 0, recentWeight |-> Absent]

(* No invocation of getUserDashboardStats is running.                      *)
IdleCall ==
    [pc |-> "idle", now |-> 0, pending |-> {}, allSessions |-> <<>>,
     recentSessions |-> <<>>, progressMetrics |-> <<>>, asOf |-> 0,
     result |-> NoStats]

(* Nobody is signed in: auth.currentUser of Firebase, currentUser of the   *)
(* service and user of useAuth are null, no listener callback is awaiting  *)
(* getUserProfile, no authChange handler is due, no login or logout runs.  *)
IdleAuth ==
    [firebaseUser |-> Absent, currentUser |-> Absent, hookUser |-> Absent,
     listenerPending |-> {}, authChanges |-> 0,
     login |-> [pc |-> "idle", uid |-> Absent], logins |-> 0,
     logout |-> "idle"]

(* useWorkoutSessions as mounted: an empty list, not loading, no error, no *)
(* request in flight.  calls counts the operations of the hook invoked so  *)
(* far and started the fetches begun so far; newest remembers the response *)
(* of the most recently started fetch among those that have succeeded.     *)
IdleDataHook ==
    [workoutSessions |-> <<>>, loading |-> FALSE, error |-> Absent,
     requests |-> {}, calls |-> 0, started |-> 0,
     newest |-> [n |-> 0, response |-> <<>>]]

(* useDashboardStats as mounted: the initial stats, not loading, no error. *)
IdleHook == [stats |-> NoStats, loading |-> FALSE, error |-> Absent]

StatsStart ==
    /\ sessions \in {History(h) : h \in HistoryLengths}
    /\ metrics = <<>>
    /\ clock = StartClock
    /\ writes = 0
    /\ call = IdleCall
    /\ hook = IdleHook
    /\ auth = IdleAuth
    /\ dataHook = IdleDataHook

(* Time passes.                                                            *)
Tick ==
    /\ clock < EndClock
    /\ clock' = clock + 1
    /\ UNCHANGED <<sessions, metrics, writes, call>>
    /\ UNCHANGED hook
    /\ UNCHANGED nutVars
    /\ UNCHANGED uiVars

(* saveWorkoutSession: addDoc to workoutSessions with the caller's date.   *)
SaveWorkoutSession ==
    /\ writes < MaxWrites
    /\ \E d \in SessionDocs :
          sessions' = InsertByDateDesc(sessions, d,
                          [x \in {d} \cup {sessions[i] : i \in 1..Len(sessions)}
                              |-> OptKey(x.calories_burned)])
    /\ writes' = writes + 1
    /\ UNCHANGED <<metrics, clock, call>>
    /\ UNCHANGED hook
    /\ UNCHANGED nutVars
    /\ UNCHANGED uiVars

(* saveProgressMetrics: addDoc to progressMetrics.                         *)
SaveProgressMetrics ==
    /\ writes < MaxWrites
    /\ \E d \in MetricDocs :
          metrics' = InsertByDateDesc(metrics, d,
                          [x \in {d} \cup {metrics[i] : i \in 1..Len(metrics)}
                              |-> OptKey(x.weight)])
    /\ writes' = writes + 1
    /\ UNCHANGED <<sessions, clock, call>>
    /\ UNCHANGED hook
    /\ UNCHANGED nutVars
    /\ UNCHANGED uiVars

(* getUserDashboardStats is entered: now is taken and the three reads of   *)
(* Promise.all are issued.                                                 *)
EnterDashboardStats ==
    /\ call.pc \in {"idle", "done", "failed"}
    /\ call' = [IdleCall EXCEPT !.pc = "reading", !.now = clock,
                    !.pending = {"allSessions", "recentSessions", "progressMetrics"}]
    /\ UNCHANGED <<sessions, metrics, clock, writes>>
    /\ UNCHANGED nutVars
    /\ UNCHANGED uiVars

(* A caller other than the hook invokes the service method.                *)
StartDashboardStats ==
    /\ EnterDashboardStats
    /\ UNCHANGED hook

(* fetchDashboardStats of useDashboardStats (on mount and on refetch, for  *)
(* a signed-in user): setLoading(true), setError(null), then the call.     *)
FetchDashboardStats ==
    /\ EnterDashboardStats
    /\ hook' = [hook EXCEPT !.loading = TRUE, !.error = Absent]

(* The store answers getUserWorkoutSessions(userId, 100).                  *)
ReadAllSessions ==
    /\ call.pc = "reading"
    /\ "allSessions" \in call.pending
    /\ call' = [call EXCEPT !.pending = @ \ {"allSessions"},
                    !.allSessions = getUserWorkoutSessions(sessions, SessionLimit)]
    /\ UNCHANGED <<sessions, metrics, clock, writes>>
    /\ UNCHANGED hook
    /\ UNCHANGED nutVars
    /\ UNCHANGED uiVars

(* The store answers the query for the sessions since oneMonthAgo.         *)
ReadRecentSessions ==
    /\ call.pc = "reading"
    /\ "recentSessions" \in call.pending
    /\ call' = [call EXCEPT !.pending = @ \ {"recentSessions"},
                    !.recentSessions =
                        RecentSessionsQuery(sessions,
                            call.now - MonthDays * TicksPerDay)]
    /\ UNCHANGED <<sessions, metrics, clock, writes>>
    /\ UNCHANGED hook
    /\ UNCHANGED nutVars
    /\ UNCHANGED uiVars

(* The store answers getLatestProgressMetrics.                             *)
ReadLatestProgressMetrics ==
    /\ call.pc = "reading"
    /\ "progressMetrics" \in call.pending
    /\ \E m \in getLatestProgressMetrics(metrics) :
          call' = [call EXCEPT !.pending = @ \ {"progressMetrics"},
                       !.progressMetrics = m]
    /\ UNCHANGED <<sessions, metrics, clock, writes>>
    /\ UNCHANGED hook
    /\ UNCHANGED nutVars
    /\ UNCHANGED uiVars

(* Promise.all has resolved: the rest of getUserDashboardStats runs, with  *)
(* checkDate taken from a new Date().                                      *)
ResolveDashboardStats ==
    /\ call.pc = "reading"
    /\ call.pending = {}
    /\ call' = [call EXCEPT !.pc = "done", !.asOf = clock,
                    !.result = DashboardStats(call.allSessions, call.recentSessions,
                                   call.progressMetrics, call.now, clock)]
    /\ UNCHANGED <<sessions, metrics, clock, writes>>
    /\ UNCHANGED nutVars
    /\ UNCHANGED uiVars

FinishDashboardStats ==
    /\ ResolveDashboardStats
    /\ UNCHANGED hook

(* One of the outstanding reads rejects: Promise.all rejects, the await    *)
(* throws and getUserDashboardStats rejects without computing anything.    *)
(* What the other reads returned is dropped; pending keeps the reads that  *)
(* had not answered.                                                       *)
RejectDashboardStats ==
    /\ call.pc = "reading"
    /\ call.pending # {}
    /\ call' = [IdleCall EXCEPT !.pc = "failed", !.now = call.now,
                    !.pending = call.pending]
    /\ UNCHANGED <<sessions, metrics, clock, writes>>
    /\ UNCHANGED nutVars
    /\ UNCHANGED uiVars

FailDashboardStats ==
    /\ RejectDashboardStats
    /\ UNCHANGED hook

FetchError == "Failed to fetch dashboard stats"

(* The catch and finally blocks of fetchDashboardStats, with setStats in   *)
(* the catch block.                                                        *)
HookAfterReject_ResetsStats(h) ==
    [h EXCEPT !.stats = NoStats, !.error = <<FetchError>>, !.loading = FALSE]

(* The catch and finally blocks of fetchDashboardStats.                    *)
HookAfterReject(h) ==
    [h EXCEPT !.error = <<FetchError>>, !.loading = FALSE]

(* The try and finally blocks of fetchDashboardStats when the call         *)
(* returned dashboardStats.                                                *)
HookAfterResolve(h, dashboardStats) ==
    [h EXCEPT !.stats = dashboardStats, !.loading = FALSE]

(* The call made by the hook returns: setStats, setLoading(false).         *)
FetchResolved ==
    /\ ResolveDashboardStats
    /\ hook' = HookAfterResolve(hook, call'.result)

(* The call made by the hook rejects: setError, setLoading(false).         *)
FetchRejected ==
    /\ RejectDashboardStats
    /\ hook' = HookAfterReject(hook)

-----------------------------------------------------------------------------
(* Signing in and out: FirebaseAuthService (services/authService.ts) with  *)
(* its onAuthStateChanged listener, and useAuth (hooks/useAuth.ts) with    *)
(* its authChange handler.  A user is <<uid>>; null is <<>>.               *)

Users == {"u1", "u2"}

(* How many logins are made before the logout.                             *)
MaxLogins == 2

(* useAuth.login calls authService.login, which awaits                     *)
(* signInWithEmailAndPassword.  The model follows the sign-ins of one      *)
(* visit up to its logout.                                                 *)
Login ==
    /\ auth.login.pc = "idle"
    /\ auth.logout = "idle"
    /\ auth.logins < MaxLogins
    /\ \E u \in Users :
          auth' = [auth EXCEPT !.login = [pc |-> "signingIn", uid |-> u],
                               !.logins = @ + 1]
    /\ UNCHANGED dataHook
    /\ UNCHANGED nutVars
    /\ UNCHANGED statsVars

(* signInWithEmailAndPassword resolves: Firebase holds the user, and when  *)
(* the user changed it calls the listener, whose callback starts awaiting  *)
(* getUserProfile; login goes on to its own getUserProfile.                *)
SignInSucceeds ==
    /\ auth.login.pc = "signingIn"
    /\ auth' = [auth EXCEPT
          !.firebaseUser = <<auth.login.uid>>,
          !.listenerPending =
              IF auth.firebaseUser = <<auth.login.uid>> THEN @
              ELSE @ \cup {auth.login.uid},
          !.login.pc = "profile"]
    /\ UNCHANGED dataHook
    /\ UNCHANGED nutVars
    /\ UNCHANGED statsVars

(* signInWithEmailAndPassword rejects: login returns success: false and    *)
(* useAuth.login leaves user alone.                                        *)
SignInFails ==
    /\ auth.login.pc = "signingIn"
    /\ auth' = [auth EXCEPT !.login = [pc |-> "idle", uid |-> Absent]]
    /\ UNCHANGED dataHook
    /\ UNCHANGED nutVars
    /\ UNCHANGED statsVars

(* getUserProfile of login returns: with a profile login sets currentUser  *)
(* and returns it; with null it returns 'User profile not found'.          *)
LoginProfileLoaded ==
    /\ auth.login.pc = "profile"
    /\ \E found \in BOOLEAN :
          auth' = IF found
                  THEN [auth EXCEPT !.currentUser = <<auth.login.uid>>,
                                    !.login.pc = "responded"]
                  ELSE [auth EXCEPT !.login = [pc |-> "idle", uid |-> Absent]]
    /\ UNCHANGED dataHook
    /\ UNCHANGED nutVars
    /\ UNCHANGED statsVars

(* useAuth.login continues with the successful response: setUser.          *)
LoginResponded ==
    /\ auth.login.pc = "responded"
    /\ auth' = [auth EXCEPT !.hookUser = <<auth.login.uid>>,
                            !.login = [pc |-> "idle", uid |-> Absent]]
    /\ UNCHANGED dataHook
    /\ UNCHANGED nutVars
    /\ UNCHANGED statsVars

(* getUserProfile of a listener callback returns (the profile, or null):   *)
(* the callback assigns currentUser and dispatches authChange, whose       *)
(* handler sets a timeout.                                                 *)
ListenerProfileLoaded ==
    /\ \E u \in auth.listenerPending, found \in BOOLEAN :
          auth' = [auth EXCEPT
              !.currentUser = IF found THEN <<u>> ELSE Absent,
              !.listenerPending = @ \ {u},
              !.authChanges = @ + 1]
    /\ UNCHANGED dataHook
    /\ UNCHANGED nutVars
    /\ UNCHANGED statsVars

(* The timeout of handleAuthChange: setUser(authService.getCurrentUser()). *)
AuthChangeTimeout ==
    /\ auth.authChanges > 0
    /\ auth' = [auth EXCEPT !.hookUser = auth.currentUser,
                            !.authChanges = @ - 1]
    /\ UNCHANGED dataHook
    /\ UNCHANGED nutVars
    /\ UNCHANGED statsVars

(* useAuth.logout calls authService.logout, which awaits signOut.  It is   *)
(* called once login has returned; listener callbacks may still be         *)
(* awaiting getUserProfile.                                                *)
Logout ==
    /\ auth.logout = "idle"
    /\ auth.login.pc = "idle"
    /\ auth' = [auth EXCEPT !.logout = "signingOut"]
    /\ UNCHANGED dataHook
    /\ UNCHANGED nutVars
    /\ UNCHANGED statsVars

(* signOut resolves: Firebase holds no user; if it held one the listener   *)
(* is called with null, sets currentUser to null and dispatches            *)
(* authChange; logout sets currentUser to null.                            *)
SignOutSucceeds ==
    /\ auth.logout = "signingOut"
    /\ auth' = [auth EXCEPT
          !.firebaseUser = Absent,
          !.currentUser = Absent,
          !.authChanges = IF auth.firebaseUser = Absent THEN @ ELSE @ + 1,
          !.logout = "signedOut"]
    /\ UNCHANGED dataHook
    /\ UNCHANGED nutVars
    /\ UNCHANGED statsVars

(* signOut rejects: logout rethrows and useAuth.logout skips setUser.      *)
SignOutFails ==
    /\ auth.logout = "signingOut"
    /\ auth' = [auth EXCEPT !.logout = "idle"]
    /\ UNCHANGED dataHook
    /\ UNCHANGED nutVars
    /\ UNCHANGED statsVars

(* useAuth.logout continues after authService.logout: setUser(null).       *)
LogoutReturns ==
    /\ auth.logout = "signedOut"
    /\ auth' = [auth EXCEPT !.hookUser = Absent, !.logout = "done"]
    /\ UNCHANGED dataHook
    /\ UNCHANGED nutVars
    /\ UNCHANGED statsVars

-----------------------------------------------------------------------------
(* useWorkoutSessions (hooks/useFirestore.ts): fetch, save and update      *)
(* requests of one mounted hook.  A request in flight is a record: id, the *)
(* operation, where it stands (writing, reading, answered), the argument   *)
(* of a save or update, the number n of its fetch (0 before it fetches)    *)
(* and the response of the store.                                          *)

(* How many operations of the hook are invoked.                            *)
MaxRequests == 2

(* limitCount of getUserWorkoutSessions when the caller passes none.       *)
DefaultLimit == 50

(* useAuth of a page where user u has signed in and everything settled.    *)
SignedInAuth(u) ==
    [IdleAuth EXCEPT !.firebaseUser = <<u>>, !.currentUser = <<u>>,
                     !.hookUser = <<u>>]

(* setLoading(true); setError(null).                                       *)
BeginRequest(h) == [h EXCEPT !.loading = TRUE, !.error = Absent]

(* The try and finally blocks of fetchWorkoutSessions with the response.   *)
FetchSucceeded(h, response) ==
    [h EXCEPT !.workoutSessions = response, !.loading = FALSE]

(* A catch block followed by a finally block that does not reset loading.  *)
RequestFailed_StaysLoading(h, message) == [h EXCEPT !.error = <<message>>]

(* A catch block and the finally block: setError(message),                 *)
(* setLoading(false).                                                      *)
RequestFailed(h, message) ==
    [h EXCEPT !.error = <<message>>, !.loading = FALSE]

(* The response of a fetch is remembered when no later-started fetch has   *)
(* succeeded before it.                                                    *)
Remember(newest, r) ==
    IF r.n > newest.n THEN [n |-> r.n, response |-> r.response] ELSE newest

(* fetchWorkoutSessions (the effect on mount, or refetch): returns at once *)
(* without a user; otherwise it begins and awaits getUserWorkoutSessions.  *)
FetchWorkoutSessions ==
    /\ auth.hookUser # Absent
    /\ dataHook.calls < MaxRequests
    /\ dataHook' =
          [BeginRequest(dataHook) EXCEPT
              !.requests = @ \cup
                  {[id |-> dataHook.calls + 1, op |-> "fetch", pc |-> "reading",
                    arg |-> Absent, n |-> dataHook.started + 1,
                    response |-> <<>>]},
              !.calls = @ + 1,
              !.started = @ + 1]
    /\ UNCHANGED auth
    /\ UNCHANGED nutVars
    /\ UNCHANGED statsVars

(* saveWorkoutSession of the hook: returns null at once without a user;    *)
(* otherwise it begins and awaits firestoreService.saveWorkoutSession.     *)
HookSaveWorkoutSession ==
    /\ auth.hookUser # Absent
    /\ dataHook.calls < MaxRequests
    /\ \E d \in SessionDocs :
          dataHook' =
              [BeginRequest(dataHook) EXCEPT
                  !.requests = @ \cup
                      {[id |-> dataHook.calls + 1, op |-> "save",
                        pc |-> "writing", arg |-> <<d>>, n |-> 0,
                        response |-> <<>>]},
                  !.calls = @ + 1]
    /\ UNCHANGED auth
    /\ UNCHANGED nutVars
    /\ UNCHANGED statsVars

(* updateWorkoutSession of the hook: it begins and awaits                  *)
(* firestoreService.updateWorkoutSession; there is no test of user.        *)
HookUpdateWorkoutSession ==
    /\ dataHook.calls < MaxRequests
    /\ \E c \in CaloriesValues \ {Absent} :
          dataHook' =
              [BeginRequest(dataHook) EXCEPT
                  !.requests = @ \cup
                      {[id |-> dataHook.calls + 1, op |-> "update",
                        pc |-> "writing", arg |-> c, n |-> 0,
                        response |-> <<>>]},
                  !.calls = @ + 1]
    /\ UNCHANGED auth
    /\ UNCHANGED nutVars
    /\ UNCHANGED statsVars

(* The store after the write of request r: addDoc of the session for a     *)
(* save; updateDoc of the latest stored session for an update.             *)
StoreAfterWrite(store, r) ==
    IF r.op = "save"
    THEN InsertByDateDesc(store, r.arg[1],
             [x \in {r.arg[1]} \cup {store[i] : i \in 1..Len(store)}
                 |-> OptKey(x.calories_burned)])
    ELSE [store EXCEPT ![1].calories_burned = r.arg]

(* The write of a save or update resolves.  The operation goes on to       *)
(* fetchWorkoutSessions, which begins a fetch when there is a user;        *)
(* without one it returns and the finally block of the operation runs.     *)
WriteResolves ==
    /\ \E r \in dataHook.requests :
          /\ r.pc = "writing"
          /\ r.op = "update" => sessions # <<>>
          /\ sessions' = StoreAfterWrite(sessions, r)
          /\ dataHook' =
                IF auth.hookUser # Absent
                THEN [BeginRequest(dataHook) EXCEPT
                         !.requests = (@ \ {r}) \cup
                             {[r EXCEPT !.pc = "reading",
                                        !.n = dataHook.started + 1]},
                         !.started = @ + 1]
                ELSE [dataHook EXCEPT !.loading = FALSE,
                                      !.requests = @ \ {r}]
    /\ writes' = writes + 1
    /\ UNCHANGED <<metrics, clock, call, hook>>
    /\ UNCHANGED auth
    /\ UNCHANGED nutVars

SaveError == "Failed to save workout session"

UpdateError == "Failed to update workout session"

FetchSessionsError == "Failed to fetch workout sessions"

(* The write of a save or update rejects (updateDoc always does when the   *)
(* document is missing): the catch and finally blocks of the operation.    *)
WriteRejects ==
    /\ \E r \in dataHook.requests :
          /\ r.pc = "writing"
          /\ dataHook' =
                [RequestFailed(dataHook,
                     IF r.op = "save" THEN SaveError ELSE UpdateError)
                 EXCEPT !.requests = @ \ {r}]
    /\ UNCHANGED auth
    /\ UNCHANGED nutVars
    /\ UNCHANGED statsVars

(* The store answers the query of a fetch from its contents of the moment. *)
ReadAnswered ==
    /\ \E r \in dataHook.requests :
          /\ r.pc = "reading"
          /\ dataHook' =
                [dataHook EXCEPT !.requests = (@ \ {r}) \cup
                    {[r EXCEPT !.pc = "answered",
                               !.response =
                                   getUserWorkoutSessions(sessions, DefaultLimit)]}]
    /\ UNCHANGED auth
    /\ UNCHANGED nutVars
    /\ UNCHANGED statsVars

(* The response of a fetch arrives: setWorkoutSessions, setLoading(false); *)
(* a save or update that awaited the fetch then ends with its own          *)
(* setLoading(false).                                                      *)
FetchArrives ==
    /\ \E r \in dataHook.requests :
          /\ r.pc = "answered"
          /\ dataHook' =
                [FetchSucceeded(dataHook, r.response) EXCEPT
                    !.requests = @ \ {r},
                    !.newest = Remember(@, r)]
    /\ UNCHANGED auth
    /\ UNCHANGED nutVars
    /\ UNCHANGED statsVars

(* The query of a fetch rejects: the catch and finally blocks of           *)
(* fetchWorkoutSessions; a save or update that awaited it then ends.       *)
FetchFails ==
    /\ \E r \in dataHook.requests :
          /\ r.pc \in {"reading", "answered"}
          /\ dataHook' =
                [RequestFailed(dataHook, FetchSessionsError) EXCEPT
                    !.requests = @ \ {r}]
    /\ UNCHANGED auth
    /\ UNCHANGED nutVars
    /\ UNCHANGED statsVars

-----------------------------------------------------------------------------
(* The default call of the dashboard (components/Dashboard.tsx) for a      *)
(* 30-year-old male user.                                                  *)
DashboardNutritionCall ==
    [weight |-> 70, height |-> 175, age |-> 30, gender |-> "male",
     activityLevel |-> "moderate", goal |-> "maintain"]

InitNutrition ==
    /\ NutritionStart
    /\ sessions = <<>>
    /\ metrics = <<>>
    /\ clock = StartClock
    /\ writes = 0
    /\ call = IdleCall
    /\ hook = IdleHook
    /\ auth = IdleAuth
    /\ dataHook = IdleDataHook

NextNutrition == CreateNutritionProfile

SpecNutrition == InitNutrition /\ [][NextNutrition]_vars

InitValidate ==
    /\ nutCall = DashboardNutritionCall
    /\ ValidateStart
    /\ sessions = <<>>
    /\ metrics = <<>>
    /\ clock = StartClock
    /\ writes = 0
    /\ call = IdleCall
    /\ hook = IdleHook
    /\ auth = IdleAuth
    /\ dataHook = IdleDataHook

NextValidate == ValidateNutritionGoals

SpecValidate == InitValidate /\ [][NextValidate]_vars

InitProtein ==
    /\ ProteinStart
    /\ sessions = <<>>
    /\ metrics = <<>>
    /\ clock = StartClock
    /\ writes = 0
    /\ call = IdleCall
    /\ hook = IdleHook
    /\ auth = IdleAuth
    /\ dataHook = IdleDataHook

NextProtein == CalculateProteinNeeds

SpecProtein == InitProtein /\ [][NextProtein]_vars

(* A caller makes several calls on the nutritionService singleton, one     *)
(* after the other.                                                        *)
MaxCalls == 4

RepeatCalls ==
    {DashboardNutritionCall,
     [DashboardNutritionCall EXCEPT !.goal = "lose"],
     [halfKg |-> 165, fitnessLevel |-> "intermediate", goal |-> "maintain"]}

InitRepeat ==
    /\ nutCall \in RepeatCalls
    /\ nutResult = [kind |-> "none"]
    /\ nutLog = <<>>
    /\ sessions = <<>>
    /\ metrics = <<>>
    /\ clock = StartClock
    /\ writes = 0
    /\ call = IdleCall
    /\ hook = IdleHook
    /\ auth = IdleAuth
    /\ dataHook = IdleDataHook

(* The previous call has returned and the caller sets out on the next one. *)
NextNutritionCall ==
    /\ nutResult.kind # "none"
    /\ Len(nutLog) < MaxCalls
    /\ nutCall' \in RepeatCalls
    /\ nutResult' = [kind |-> "none"]
    /\ UNCHANGED nutLog
    /\ UNCHANGED statsVars
    /\ UNCHANGED uiVars

NextRepeat ==
    \/ NextNutritionCall
    \/ CreateNutritionProfile
    \/ ValidateNutritionGoals
    \/ CalculateProteinNeeds

SpecRepeat == InitRepeat /\ [][NextRepeat]_vars

(* The dashboard derives a nutrition profile while a getUserDashboardStats *)
(* call is in flight: the synchronous createNutritionProfile runs between  *)
(* any two steps of the suspended call.                                    *)
ConcurrentCalls ==
    {c \in NutritionCalls :
        /\ c.weight = DashboardNutritionCall.weight
        /\ c.height = DashboardNutritionCall.height
        /\ c.age = DashboardNutritionCall.age}

InitConcurrent ==
    /\ nutCall \in ConcurrentCalls
    /\ nutResult = [kind |-> "none"]
    /\ nutLog = <<>>
    /\ StatsStart

NextConcurrent ==
    \/ CreateNutritionProfile
    \/ StartDashboardStats
    \/ ReadAllSessions
    \/ ReadRecentSessions
    \/ ReadLatestProgressMetrics
    \/ FinishDashboardStats

SpecConcurrent == InitConcurrent /\ [][NextConcurrent]_vars

(* A caller derives a profile and then has it validated.                   *)
InitDeriveAndValidate == InitNutrition

NextDeriveAndValidate ==
    \/ CreateNutritionProfile
    \/ ValidateNutritionGoals

SpecDeriveAndValidate ==
    InitDeriveAndValidate /\ [][NextDeriveAndValidate]_vars

InitStats ==
    /\ nutCall = DashboardNutritionCall
    /\ nutResult = [kind |-> "none"]
    /\ nutLog = <<>>
    /\ StatsStart

NextStats ==
    \/ Tick
    \/ SaveWorkoutSession
    \/ SaveProgressMetrics
    \/ StartDashboardStats
    \/ ReadAllSessions
    \/ ReadRecentSessions
    \/ ReadLatestProgressMetrics
    \/ FinishDashboardStats
    \/ FailDashboardStats

SpecStats == InitStats /\ [][NextStats]_vars

(* The dashboard of a new user with useDashboardStats mounted: the store   *)
(* starts empty and every call of getUserDashboardStats is made by the     *)
(* hook.                                                                   *)
InitHook ==
    /\ nutCall = DashboardNutritionCall
    /\ nutResult = [kind |-> "none"]
    /\ nutLog = <<>>
    /\ sessions = <<>>
    /\ metrics = <<>>
    /\ clock = StartClock
    /\ writes = 0
    /\ call = IdleCall
    /\ hook = IdleHook
    /\ auth = IdleAuth
    /\ dataHook = IdleDataHook

NextHook ==
    \/ Tick
    \/ SaveWorkoutSession
    \/ SaveProgressMetrics
    \/ FetchDashboardStats
    \/ ReadAllSessions
    \/ ReadRecentSessions
    \/ ReadLatestProgressMetrics
    \/ FetchResolved
    \/ FetchRejected

SpecHook == InitHook /\ [][NextHook]_vars

(* One visit of the app: logins, then a logout, with the listener          *)
(* callbacks and authChange handlers they set off.                         *)
InitAuth == InitHook

NextAuth ==
    \/ Login
    \/ SignInSucceeds
    \/ SignInFails
    \/ LoginProfileLoaded
    \/ LoginResponded
    \/ ListenerProfileLoaded
    \/ AuthChangeTimeout
    \/ Logout
    \/ SignOutSucceeds
    \/ SignOutFails
    \/ LogoutReturns

SpecAuth == InitAuth /\ [][NextAuth]_vars

(* A page with useWorkoutSessions mounted, for a visitor who is not signed *)
(* in or for user u1, over a store that is empty or holds one session.     *)
InitDataHook ==
    /\ nutCall = DashboardNutritionCall
    /\ nutResult = [kind |-> "none"]
    /\ nutLog = <<>>
    /\ sessions \in {<<>>, History(1)}
    /\ metrics = <<>>
    /\ clock = StartClock
    /\ writes = 0
    /\ call = IdleCall
    /\ hook = IdleHook
    /\ auth \in {IdleAuth, SignedInAuth("u1")}
    /\ dataHook = IdleDataHook

NextDataHook ==
    \/ FetchWorkoutSessions
    \/ HookSaveWorkoutSession
    \/ HookUpdateWorkoutSession
    \/ WriteResolves
    \/ WriteRejects
    \/ ReadAnswered
    \/ FetchArrives
    \/ FetchFails

SpecDataHook == InitDataHook /\ [][NextDataHook]_vars

Init == NutritionStart /\ StatsStart

Next ==
    \/ NextNutrition \/ NextValidate \/ NextStats \/ NextHook
    \/ NextAuth \/ NextDataHook

Spec == Init /\ [][Next]_vars

-----------------------------------------------------------------------------
(* Properties of the nutrition calculator.                                 *)

ValidInput(c) == c.weight > 0 /\ c.height > 0 /\ c.age > 0

Returned == nutResult.kind = "profile"

Abs(n) == IF n < 0 THEN -n ELSE n

(* The energy of the rounded macro grams minus the calorie target.         *)
MacroDeviation(profile) ==
    profile.macro_goals.protein * 4 + profile.macro_goals.carbs * 4
      + profile.macro_goals.fats * 9 - profile.target_calories

(* C1, as stated: for every valid input and every goal the returned        *)
(* profile has target_calories >= 1200.                                    *)
C1_TargetAtLeast1200 ==
    (Returned /\ ValidInput(nutCall))
        => nutResult.profile.target_calories >= 1200

(* C1, amended: for every valid input with goal lose the returned profile  *)
(* has target_calories >= 1200; with goal maintain or gain the target is   *)
(* tdee, respectively tdee + 400, and so is at least 1200 only when that   *)
(* value is.                                                               *)
C1_LoseTargetAtLeast1200 ==
    (Returned /\ ValidInput(nutCall)) =>
        LET p == nutResult.profile IN
        /\ nutCall.goal = "lose" => p.target_calories >= 1200
        /\ nutCall.goal = "maintain" => p.target_calories = p.tdee
        /\ nutCall.goal = "gain" => p.target_calories = p.tdee + 400

(* C1 witness: a valid input with goal lose whose tdee - 500 is below 1200 *)
(* and whose profile sits on the floor.                                    *)
C1_Witness ==
    /\ Returned
    /\ ValidInput(nutCall)
    /\ nutCall.goal = "lose"
    /\ nutResult.profile.tdee - 500 < 1200
    /\ nutResult.profile.target_calories = 1200

(* C2, as stated: for every profile derived from a valid input the energy  *)
(* of the rounded grams is within 5 kcal of target_calories.               *)
C2_MacrosWithin5 ==
    (Returned /\ ValidInput(nutCall))
        => Abs(MacroDeviation(nutResult.profile)) <= 5

(* C2, amended: for every returned profile the energy of the independently *)
(* rounded grams, protein*4 + carbs*4 + fats*9, is within 8 kcal of        *)
(* target_calories.                                                        *)
C2_MacrosWithin8 ==
    Returned => Abs(MacroDeviation(nutResult.profile)) <= 8

(* C2 witness: a valid input whose profile is off by the full 8 kcal.      *)
C2_Witness ==
    /\ Returned
    /\ ValidInput(nutCall)
    /\ Abs(MacroDeviation(nutResult.profile)) = 8

(* C3: a call with a non-positive weight, height or age returns no         *)
(* profile; it fails with InvalidInputError.                               *)
C3_InvalidInputRejected ==
    (nutResult.kind # "none" /\ ~ValidInput(nutCall))
        => nutResult.kind = "InvalidInputError"

-----------------------------------------------------------------------------
(* Properties of the dashboard statistics.  The statements below read the  *)
(* result of a finished getUserDashboardStats call against the store as it *)
(* is: Settled says that the call took one reference time (now and the     *)
(* instant of checkDate coincide) and that its three reads, made again on  *)
(* the present store, return what the call holds.                          *)
Settled ==
    /\ call.pc = "done"
    /\ call.now = call.asOf
    /\ call.allSessions = getUserWorkoutSessions(sessions, SessionLimit)
    /\ call.recentSessions =
          RecentSessionsQuery(sessions, call.now - MonthDays * TicksPerDay)
    /\ call.progressMetrics \in getLatestProgressMetrics(metrics)

(* The calendar days on which the collection has a session.                *)
SessionDays(store) == {DayOf(store[i].date) : i \in 1..Len(store)}

(* The number of consecutive days d0, d0 - 1, ... that each have a session.*)
RunLength(store, d0) ==
    LET days == SessionDays(store)
    IN CHOOSE k \in 0..Len(store) :
          /\ \A m \in 0..(k - 1) : (d0 - m) \in days
          /\ (d0 - k) \notin days

(* The sessions of the collection dated within [from, to].                 *)
SessionsWithin(store, from, to) ==
    SubSeq(store,
        1 + Cardinality({i \in 1..Len(store) : store[i].date > to}),
        Cardinality({i \in 1..Len(store) : store[i].date >= from}))

(* What a getUserDashboardStats call returns when it runs at instant t on  *)
(* the given collections with nothing else happening meanwhile.            *)
StatsAt(store, samples, t) ==
    {DashboardStats(getUserWorkoutSessions(store, SessionLimit),
         RecentSessionsQuery(store, t - MonthDays * TicksPerDay), m, t, t) :
       m \in getLatestProgressMetrics(samples)}

(* The collection with one more session document.                          *)
WithSession(store, d) ==
    InsertByDateDesc(store, d,
        [x \in {d} \cup {store[i] : i \in 1..Len(store)}
            |-> OptKey(x.calories_burned)])

(* C4: the workout streak of a result equals the length of the longest run *)
(* of consecutive calendar days, starting at as_of's day and going back,   *)
(* that each have at least one session (so 0 when as_of's day has none).   *)
C4_StreakIsRunLength ==
    Settled => call.result.workoutStreak = RunLength(sessions, DayOf(call.asOf))

(* C5: adding a further session on a day that already has one leaves the   *)
(* streak unchanged, while total_workouts counts the added session and so  *)
(* does the calorie sum (for a session dated within the 30 days up to now).*)
C5_SameDayCountsOnce ==
    Settled =>
        \A d \in SessionDocs :
            DayOf(d.date) \in SessionDays(sessions) =>
                \A after \in StatsAt(WithSession(sessions, d), metrics, call.now) :
                    /\ after.workoutStreak = call.result.workoutStreak
                    /\ after.totalWorkouts = call.result.totalWorkouts + 1
                    /\ (d.date <= call.now
                            /\ d.date >= call.now - MonthDays * TicksPerDay)
                          => after.caloriesBurned = call.result.caloriesBurned
                                + (IF d.calories_burned = Absent
                                   THEN 0 ELSE d.calories_burned[1])

(* C6: adding a session dated on a day after as_of's day leaves the streak *)
(* unchanged.                                                              *)
C6_FutureSessionsIgnored ==
    Settled =>
        \A d \in SessionDocs :
            DayOf(d.date) > DayOf(call.asOf) =>
                \A after \in StatsAt(WithSession(sessions, d), metrics, call.now) :
                    after.workoutStreak = call.result.workoutStreak

(* C7: total_workouts is the number of sessions the user has stored,       *)
(* whatever that number is.                                                *)
C7_TotalIsSessionCount ==
    Settled => call.result.totalWorkouts = Len(sessions)

(* C8: calories_burned_30d is the sum of calories_burned over exactly the  *)
(* sessions dated within [as_of - 30 days, as_of].                         *)
C8_CaloriesOfTrailing30Days ==
    Settled =>
        LET window == SessionsWithin(sessions,
                          call.now - MonthDays * TicksPerDay, call.now)
        IN call.result.caloriesBurned = ReduceCalories(window, 1, Len(window))

(* C9: weekly_goal_progress is min(100, 100 * k / 4) for k the number of   *)
(* sessions dated within [as_of - 7 days, as_of].                          *)
C9_WeeklyProgressOfTrailing7Days ==
    Settled =>
        LET k == Len(SessionsWithin(sessions,
                         call.now - WeekDays * TicksPerDay, call.now))
        IN call.result.weeklyGoalProgress =
              (IF 25 * k < 100 THEN 25 * k ELSE 100)

(* C10: most_recent_weight is the weight of the latest-dated sample among  *)
(* those that have a weight, and is absent only when no sample has one.    *)
C10_WeightOfLatestWeighedSample ==
    Settled =>
        LET weighed == {i \in 1..Len(metrics) : metrics[i].weight # Absent}
        IN IF weighed = {}
           THEN call.result.recentWeight = Absent
           ELSE call.result.recentWeight \in
                   {metrics[i].weight : i \in
                       {j \in weighed :
                           \A l \in weighed : metrics[l].date <= metrics[j].date}}

-----------------------------------------------------------------------------
(* The three reads of a finished call, made again on the present store,    *)
(* return what the call holds.                                             *)
ReadsCurrent ==
    /\ call.pc = "done"
    /\ call.allSessions = getUserWorkoutSessions(sessions, SessionLimit)
    /\ call.recentSessions =
          RecentSessionsQuery(sessions, call.now - MonthDays * TicksPerDay)
    /\ call.progressMetrics \in getLatestProgressMetrics(metrics)

(* C11: all statistics of one result are taken at a single reference time: *)
(* the day the streak starts from is the day of the instant that ends the  *)
(* 7-day and 30-day windows, so the result is the one determined by the    *)
(* sessions, the metrics and that instant.                                 *)
C11_SingleReferenceTime ==
    ReadsCurrent =>
        /\ DayOf(call.asOf) = DayOf(call.now)
        /\ call.result \in StatsAt(sessions, metrics, call.now)

-----------------------------------------------------------------------------
(* C12: the target is max(1200, tdee - 500) for goal lose (so 1200         *)
(* whenever tdee - 500 < 1200), tdee + 400 for goal gain and tdee itself   *)
(* for goal maintain, for every tdee, negative ones included.              *)
C12_TargetCaloriesByGoal ==
    Returned =>
        LET p == nutResult.profile IN
        /\ (p.goal = "lose" /\ p.tdee - 500 < 1200) => p.target_calories = 1200
        /\ (p.goal = "lose" /\ p.tdee - 500 >= 1200)
              => p.target_calories = p.tdee - 500
        /\ p.goal = "gain" => p.target_calories = p.tdee + 400
        /\ p.goal = "maintain" => p.target_calories = p.tdee
        /\ p.goal = nutCall.goal

(* C12 witness: goal lose with a tdee between 1200 and 1700, where         *)
(* tdee - 500 is below the floor and the target is 1200.                   *)
C12_Witness ==
    /\ Returned
    /\ nutResult.profile.goal = "lose"
    /\ nutResult.profile.tdee > 1200
    /\ nutResult.profile.tdee < 1700
    /\ nutResult.profile.target_calories = 1200

-----------------------------------------------------------------------------
(* C13: for every calorie value and goal calculateMacros returns the       *)
(* calories unchanged and protein = round(calories * p / 4), carbs =       *)
(* round(calories * c / 4), fats = round(calories * f / 9), with           *)
(* (p, f, c) = (35, 30, 35) percent for lose, (25, 25, 50) for gain and    *)
(* (30, 30, 40) for maintain.                                              *)
C13_MacrosAreRoundedShares ==
    Returned =>
        LET p == nutResult.profile
            m == p.macro_goals
            calories == p.target_calories
            share == CASE p.goal = "lose" -> <<35, 30, 35>>
                       [] p.goal = "gain" -> <<25, 25, 50>>
                       [] p.goal = "maintain" -> <<30, 30, 40>>
        IN /\ m.calories = calories
           /\ m.protein = Round(share[1] * calories, 400)
           /\ m.fats = Round(share[2] * calories, 900)
           /\ m.carbs = Round(share[3] * calories, 400)

-----------------------------------------------------------------------------
(* C14: bmr = round(10 weight + 6.25 height - 5 age + s) with s = 5 for    *)
(* male and -161 for female, and tdee = round(b * m) for the unrounded     *)
(* value b of that sum and m = 1.2, 1.375, 1.55, 1.725, 1.9 by activity    *)
(* level (written here over the common denominators 4 and 4000).           *)
C14_BmrAndTdeeFromUnroundedBmr ==
    Returned =>
        LET c == nutCall
            s == IF c.gender = "male" THEN 5 ELSE -161
            b4 == 40 * c.weight + 25 * c.height - 20 * c.age + 4 * s
            m1000 == CASE c.activityLevel = "sedentary" -> 1200
                       [] c.activityLevel = "light" -> 1375
                       [] c.activityLevel = "moderate" -> 1550
                       [] c.activityLevel = "active" -> 1725
                       [] c.activityLevel = "very-active" -> 1900
        IN /\ nutResult.profile.bmr = (2 * b4 + 4) \div 8
           /\ nutResult.profile.tdee = (2 * b4 * m1000 + 4000) \div 8000

(* C14 witness: male, 70 kg, 175 cm, 30 years, moderate gives bmr 1649 and *)
(* tdee 2556.                                                              *)
C14_Witness ==
    /\ Returned
    /\ nutCall.gender = "male" /\ nutCall.weight = 70 /\ nutCall.height = 175
    /\ nutCall.age = 30 /\ nutCall.activityLevel = "moderate"
    /\ nutResult.profile.bmr = 1649
    /\ nutResult.profile.tdee = 2556

-----------------------------------------------------------------------------
(* C15: for every valid input (weight, height and age all positive) and    *)
(* every goal, the protein, carbs, fats and calories of the returned       *)
(* profile's macro_goals are non-negative integers.                        *)
C15_MacroGoalsNonNegative ==
    (Returned /\ ValidInput(nutCall)) =>
        LET m == nutResult.profile.macro_goals
        IN /\ m.protein \in Nat
           /\ m.carbs \in Nat
           /\ m.fats \in Nat
           /\ m.calories \in Nat

-----------------------------------------------------------------------------
(* Properties of the goal validator.                                       *)

Validated == nutResult.kind = "validated"

(* How often a warning occurs in a warning list.                           *)
Occurrences(warnings, w) ==
    Cardinality({i \in 1..Len(warnings) : warnings[i] = w})

(* n / d < a / 100 for integers, d # 0.                                    *)
RatioBelow(n, d, a) ==
    IF d > 0 THEN 100 * n < a * d ELSE 100 * n > a * d

(* C16: the three rules are evaluated independently and each rule that    *)
(* fires yields exactly one warning: calories-too-low iff target_calories  *)
(* < 1200, protein-too-low iff protein * 4 / target_calories < 0.15,       *)
(* fat-too-low iff fats * 9 / target_calories < 0.20; the list is empty,   *)
(* and valid is true, iff no rule fires.  (For target_calories = 0 the     *)
(* quotients are those of the doubles: -Infinity for a negative energy,    *)
(* and otherwise a value that is below no threshold.)                      *)
C16_OneWarningPerFiredRule ==
    Validated =>
        LET p == nutResult.given
            t == p.target_calories
            caloriesFire == t < 1200
            proteinFire == IF t = 0 THEN p.macro_goals.protein < 0
                           ELSE RatioBelow(p.macro_goals.protein * 4, t, 15)
            fatFire == IF t = 0 THEN p.macro_goals.fats < 0
                       ELSE RatioBelow(p.macro_goals.fats * 9, t, 20)
            fired == (IF caloriesFire THEN 1 ELSE 0)
                       + (IF proteinFire THEN 1 ELSE 0)
                       + (IF fatFire THEN 1 ELSE 0)
        IN /\ Occurrences(nutResult.warnings, CaloriesTooLow)
                 = IF caloriesFire THEN 1 ELSE 0
           /\ Occurrences(nutResult.warnings, ProteinTooLow)
                 = IF proteinFire THEN 1 ELSE 0
           /\ Occurrences(nutResult.warnings, FatTooLow)
                 = IF fatFire THEN 1 ELSE 0
           /\ Len(nutResult.warnings) = fired
           /\ nutResult.valid <=> (fired = 0)
           /\ (nutResult.warnings = <<>>) <=> (fired = 0)

(* C16 witness: target 1100 with adequate protein and fat yields the       *)
(* calories warning alone.                                                 *)
C16_Witness ==
    /\ Validated
    /\ nutResult.given.target_calories = 1100
    /\ nutResult.warnings = <<CaloriesTooLow>>
    /\ ~nutResult.valid

(* Target 2500 with protein 200 and fats 80 yields no warning.             *)
C16_WitnessNoWarning ==
    /\ Validated
    /\ nutResult.given.target_calories = 2500
    /\ nutResult.given.macro_goals.protein = 200
    /\ nutResult.given.macro_goals.fats = 80
    /\ nutResult.warnings = <<>>
    /\ nutResult.valid

(* C20: the validator never fails and never modifies the profile it is     *)
(* given, whatever the profile (target_calories zero or negative values    *)
(* included): every call ends with a list of warnings, possibly empty, and *)
(* with the profile as it was.                                             *)
C20_ValidatorTotalAndReadOnly ==
    (nutResult.kind # "profile") =>
        /\ nutResult.kind = "validated"
        /\ nutResult.profile = nutResult.given
        /\ nutResult.warnings \in Seq({CaloriesTooLow, ProteinTooLow, FatTooLow})
        /\ nutResult.valid \in BOOLEAN

(* C20 witness: a profile with target_calories 0 and negative protein and  *)
(* fats has been validated and is unchanged.                               *)
C20_Witness ==
    /\ Validated
    /\ nutResult.given.target_calories = 0
    /\ nutResult.given.macro_goals.protein < 0
    /\ nutResult.given.macro_goals.fats < 0
    /\ nutResult.profile = nutResult.given
    /\ Len(nutResult.warnings) = 3

-----------------------------------------------------------------------------
(* C17: for a user with no sessions and no metric samples the call returns *)
(* workoutStreak 0, totalWorkouts 0, caloriesBurned 0, weeklyGoalProgress  *)
(* 0 and no recentWeight.                                                  *)
C17_EmptyCollectionsGiveZeros ==
    (call.pc = "done" /\ sessions = <<>> /\ metrics = <<>>) =>
        /\ call.result.workoutStreak = 0
        /\ call.result.totalWorkouts = 0
        /\ call.result.caloriesBurned = 0
        /\ call.result.weeklyGoalProgress = 0
        /\ call.result.recentWeight = Absent

(* C17 witness: a call has finished on empty collections.                  *)
C17_Witness ==
    /\ call.pc = "done"
    /\ sessions = <<>>
    /\ metrics = <<>>
    /\ call.allSessions = <<>>
    /\ call.result.totalWorkouts = 0

-----------------------------------------------------------------------------
(* The collection with calories_burned missing from its i-th session.      *)
WithoutCaloriesAt(store, i) ==
    [store EXCEPT ![i] = [@ EXCEPT !.calories_burned = Absent]]

(* The collection with calories_burned missing from every session.         *)
WithoutCalories(store) ==
    [i \in 1..Len(store) |-> [store[i] EXCEPT !.calories_burned = Absent]]

(* The calories a session adds to the sum of a call made at instant now.   *)
CaloriesCounted(session, now) ==
    IF session.calories_burned # Absent
          /\ session.date >= now - MonthDays * TicksPerDay
    THEN session.calories_burned[1] ELSE 0

(* C18: a missing optional field is no error.  The call returns a full     *)
(* result whatever fields are missing; a session without calories_burned   *)
(* adds 0 to the calorie sum and counts as before in totalWorkouts, the    *)
(* streak and the weekly count: taking calories_burned away from a session *)
(* lowers the sum by what it had added and changes nothing else, and with  *)
(* calories_burned missing everywhere the sum is 0.                        *)
C18_MissingFieldsAreNoData ==
    Settled =>
        /\ DOMAIN call.result = {"workoutStreak", "totalWorkouts",
               "caloriesBurned", "weeklyGoalProgress", "recentWeight"}
        /\ \A r \in StatsAt(WithoutCalories(sessions), metrics, call.now) :
              /\ r.caloriesBurned = 0
              /\ r.workoutStreak = call.result.workoutStreak
              /\ r.totalWorkouts = call.result.totalWorkouts
              /\ r.weeklyGoalProgress = call.result.weeklyGoalProgress
        /\ \A i \in 1..Len(sessions) :
              \A r \in StatsAt(WithoutCaloriesAt(sessions, i), metrics, call.now) :
                 /\ r.caloriesBurned = call.result.caloriesBurned
                                         - CaloriesCounted(sessions[i], call.now)
                 /\ r.workoutStreak = call.result.workoutStreak
                 /\ r.totalWorkouts = call.result.totalWorkouts
                 /\ r.weeklyGoalProgress = call.result.weeklyGoalProgress

(* C18 witness: a call has finished on a store whose only session of       *)
(* today has no calories_burned, and on a latest sample without a weight:  *)
(* the session is counted by the streak, the total and the weekly count.   *)
C18_Witness ==
    /\ Settled
    /\ Len(sessions) = 1
    /\ sessions[1].calories_burned = Absent
    /\ DayOf(sessions[1].date) = DayOf(call.asOf)
    /\ metrics # <<>>
    /\ metrics[1].weight = Absent
    /\ call.result.caloriesBurned = 0
    /\ call.result.totalWorkouts = 1
    /\ call.result.workoutStreak = 1
    /\ call.result.weeklyGoalProgress = 25
    /\ call.result.recentWeight = Absent

-----------------------------------------------------------------------------
(* C19: there is no partial success.  A call ends with a result only when  *)
(* all three reads have answered; when a read fails, however many of the   *)
(* others had answered, the call ends without a result, and the hook keeps *)
(* the stats it held, sets error to 'Failed to fetch dashboard stats' and  *)
(* stops loading.                                                          *)
C19_NoPartialSuccess ==
    [][/\ (call.pc = "reading" /\ call'.pc = "failed") =>
             /\ call'.result = NoStats
             /\ hook'.stats = hook.stats
             /\ hook'.error = <<"Failed to fetch dashboard stats">>
             /\ hook'.loading = FALSE
       /\ (call.pc = "reading" /\ call'.pc = "done") =>
             /\ call.pending = {}
             /\ hook'.stats = call'.result
             /\ hook'.error = Absent
      ]_vars

(* C19 witness: a fetch has failed after two of its three reads had        *)
(* answered; the hook shows the error and still holds the stats of an      *)
(* earlier fetch.                                                          *)
C19_Witness ==
    /\ call.pc = "failed"
    /\ Cardinality(call.pending) = 1
    /\ hook.error = <<FetchError>>
    /\ hook.loading = FALSE
    /\ hook.stats.totalWorkouts > 0
    /\ hook.stats.caloriesBurned > 0

-----------------------------------------------------------------------------
(* C30: for every valid input with goal lose, the validator finds nothing  *)
(* to warn about in the derived profile: valid is true and the warning     *)
(* list is empty.                                                          *)
C30_LoseProfilesPassValidation ==
    (Validated /\ ValidInput(nutCall) /\ nutCall.goal = "lose") =>
        /\ nutResult.valid
        /\ nutResult.warnings = <<>>

(* C30 witness: a valid input with goal lose whose profile sits on the     *)
(* 1200 floor has been validated without warnings.                         *)
C30_Witness ==
    /\ Validated
    /\ ValidInput(nutCall)
    /\ nutCall.goal = "lose"
    /\ nutResult.given.tdee < 1700
    /\ nutResult.given.target_calories = 1200
    /\ nutResult.given.macro_goals.protein = 105
    /\ nutResult.valid

-----------------------------------------------------------------------------
(* C23: the per-kg protein factor lies in [1.2, 2.2] for all nine          *)
(* combinations of goal and tier, rises strictly from beginner to          *)
(* intermediate to advanced within each goal, and is for each tier         *)
(* strictly highest for goal lose; the result is round(weightKg * factor). *)
C23_ProteinFactorTableAndRounding ==
    /\ \A g \in Goals : \A l \in FitnessLevels :
          proteinPerKg(g, l) >= 12 /\ proteinPerKg(g, l) <= 22
    /\ \A g \in Goals :
          /\ proteinPerKg(g, "beginner") < proteinPerKg(g, "intermediate")
          /\ proteinPerKg(g, "intermediate") < proteinPerKg(g, "advanced")
    /\ \A l \in FitnessLevels : \A g \in Goals \ {"lose"} :
          proteinPerKg("lose", l) > proteinPerKg(g, l)
    /\ nutResult.kind = "protein" =>
          nutResult.grams
             = (2 * nutCall.halfKg
                    * proteinPerKg(nutCall.goal, nutCall.fitnessLevel) + 20) \div 40

(* The table part of C23 alone, and the rounding away from the ties.       *)
C23_HoldsOffTheTies ==
    /\ \A g \in Goals : \A l \in FitnessLevels :
          proteinPerKg(g, l) >= 12 /\ proteinPerKg(g, l) <= 22
    /\ \A g \in Goals :
          /\ proteinPerKg(g, "beginner") < proteinPerKg(g, "intermediate")
          /\ proteinPerKg(g, "intermediate") < proteinPerKg(g, "advanced")
    /\ \A l \in FitnessLevels : \A g \in Goals \ {"lose"} :
          proteinPerKg("lose", l) > proteinPerKg(g, l)
    /\ (nutResult.kind = "protein"
          /\ ~NeedsFallShort(nutCall.halfKg,
                 proteinPerKg(nutCall.goal, nutCall.fitnessLevel))) =>
          nutResult.grams
             = (2 * nutCall.halfKg
                    * proteinPerKg(nutCall.goal, nutCall.fitnessLevel) + 20) \div 40

-----------------------------------------------------------------------------
-----------------------------------------------------------------------------
-----------------------------------------------------------------------------
(* C25: in every result the number of sessions counted toward the weekly   *)
(* goal and the number counted toward the 30-day calorie sum are at most   *)
(* totalWorkouts, also when a session is saved between the reads.          *)
C25_WindowCountsWithinTotal ==
    call.pc = "done" =>
        /\ Len(call.recentSessions) <= call.result.totalWorkouts
        /\ ThisWeekSessions(call.recentSessions,
               call.now - WeekDays * TicksPerDay) <= call.result.totalWorkouts

-----------------------------------------------------------------------------
(* The logout has completed and nothing it or the logins set off is still  *)
(* to run.                                                                 *)
LogoutSettled ==
    /\ auth.logout = "done"
    /\ auth.login.pc = "idle"
    /\ auth.listenerPending = {}
    /\ auth.authChanges = 0

(* C24: after a logout has completed and every pending listener callback   *)
(* and authChange handler has run, the user held by the auth service and   *)
(* the user held by useAuth are null.                                      *)
C24_SignedOutAfterLogout ==
    LogoutSettled => auth.currentUser = Absent /\ auth.hookUser = Absent

-----------------------------------------------------------------------------
(* C26: loading is true whenever at least one fetch, save or update        *)
(* request of the hook is still in flight.                                 *)
C26_LoadingWhileInFlight ==
    dataHook.requests # {} => dataHook.loading

(* C27: once every started request has settled, by success or by failure,  *)
(* loading is false.                                                       *)
C27_NotLoadingOnceSettled ==
    dataHook.requests = {} => dataHook.loading = FALSE

(* C27 witness: two operations were invoked, the last to settle failed,    *)
(* nothing is in flight and a fetched list is held.                        *)
C27_Witness ==
    /\ dataHook.requests = {}
    /\ dataHook.calls >= 2
    /\ dataHook.error # Absent
    /\ dataHook.workoutSessions # <<>>
    /\ dataHook.loading = FALSE

(* C28: when fetches overlap, the list held after all have completed is    *)
(* the response of the fetch that was started last among those that        *)
(* succeeded.                                                              *)
C28_LastStartedFetchWins ==
    (dataHook.requests = {} /\ dataHook.newest.n > 0)
        => dataHook.workoutSessions = dataHook.newest.response

(* C29: while no user is signed in, no step changes the state of the hook  *)
(* or the store, and no request is issued.                                 *)
C29_NothingWithoutUser ==
    [][auth.hookUser = Absent => UNCHANGED <<dataHook, sessions>>]_vars

====
